---- MODULE Spec2Model ----
(***************************************************************************)
(* To-do list with localStorage persistence (src/script.js).               *)
(*                                                                         *)
(* JavaScript strings are modelled as sequences of one-character strings,  *)
(* so that trim, Number.toString, Date.toISOString, JSON.stringify,        *)
(* JSON.parse and escapeHtml are computed character by character.          *)
(* A task is a record [id, text, completed, createdAt]; the collection is  *)
(* a sequence of tasks, index 1 being the front of the array.              *)
(***************************************************************************)
EXTENDS Integers, Sequences, FiniteSets, TLC

\* ------------------------------------------------------------------ bounds
\* Largest number of tasks the collection is allowed to grow to.
MaxTasks == 2
\* Largest clock reading (milliseconds since the first reading).
MaxClock == 1
\* Largest number of storage writes that fail in one run.
MaxFailures == 1

\* ----------------------------------------------------------------- strings
WhiteSpace == {" ", "\t", "\n"}

RECURSIVE TrimStart(_)
TrimStart(s) ==
  IF s # <<>> /\ Head(s) \in WhiteSpace THEN TrimStart(Tail(s)) ELSE s

RECURSIVE TrimEnd(_)
TrimEnd(s) ==
  IF s # <<>> /\ s[Len(s)] \in WhiteSpace
    THEN TrimEnd(SubSeq(s, 1, Len(s) - 1))
    ELSE s

\* A bug: the text is taken as typed, without trimming.
NoTrim(s) == s

\* String.prototype.trim
Trim(s) == TrimEnd(TrimStart(s))

Digit(d) == <<"0", "1", "2", "3", "4", "5", "6", "7", "8", "9">>[d + 1]

\* Number.prototype.toString for a non-negative integer (radix 10).
RECURSIVE NumberToString(_)
NumberToString(n) ==
  IF n < 10 THEN <<Digit(n)>> ELSE NumberToString(n \div 10) \o <<Digit(n % 10)>>

\* n written with exactly w digits (zero padded), n < 10^w.
RECURSIVE Pad(_, _)
Pad(n, w) == IF w = 0 THEN <<>> ELSE Pad(n \div 10, w - 1) \o <<Digit(n % 10)>>

\* Date.prototype.toISOString of the instant ms milliseconds after the epoch,
\* for instants within the epoch's first hour.
ToISOString(ms) ==
  <<"1", "9", "7", "0", "-", "0", "1", "-", "0", "1", "T", "0", "0", ":">>
    \o Pad(ms \div 60000, 2) \o <<":">>
    \o Pad((ms \div 1000) % 60, 2) \o <<".">>
    \o Pad(ms % 1000, 3) \o <<"Z">>

\* ------------------------------------------------------------------- tasks
\* The object literal of onAdd.  Date.now() and new Date() are read within
\* one run of the handler and are taken to read the same millisecond now:
\* the id is that reading as a decimal string, createdAt as an ISO string.
NewTask(text, now) ==
  [id |-> NumberToString(now), text |-> text, completed |-> FALSE,
   createdAt |-> ToISOString(now)]

\* --------------------------------------------------------- JSON.stringify
\* A bug: quotes and backslashes go into the string value as they are.
JsonNoEscape(c) == <<c>>

\* The characters a string value contributes between its quotes.
JsonEscapeChar(c) ==
  CASE c = "\"" -> <<"\\", "\"">>
    [] c = "\\" -> <<"\\", "\\">>
    [] c = "\t" -> <<"\\", "t">>
    [] c = "\n" -> <<"\\", "n">>
    [] OTHER -> <<c>>

\* The escaped characters of s from position i on.
RECURSIVE JsonEscapeFrom(_, _)
JsonEscapeFrom(s, i) ==
  IF i > Len(s) THEN <<>> ELSE JsonEscapeChar(s[i]) \o JsonEscapeFrom(s, i + 1)

JsonEscape(s) == JsonEscapeFrom(s, 1)

JsonQuote(s) == <<"\"">> \o JsonEscape(s) \o <<"\"">>

JsonBool(b) ==
  IF b THEN <<"t", "r", "u", "e">> ELSE <<"f", "a", "l", "s", "e">>

\* The property names of a task.
KeyId == <<"i", "d">>
KeyText == <<"t", "e", "x", "t">>
KeyCompleted == <<"c", "o", "m", "p", "l", "e", "t", "e", "d">>
KeyCreatedAt == <<"c", "r", "e", "a", "t", "e", "d", "A", "t">>

\* The text of the object up to each value: {"id": and so on.
OpenId == <<"{">> \o JsonQuote(KeyId) \o <<":">>
CommaText == <<",">> \o JsonQuote(KeyText) \o <<":">>
CommaCompleted == <<",">> \o JsonQuote(KeyCompleted) \o <<":">>
CommaCreatedAt == <<",">> \o JsonQuote(KeyCreatedAt) \o <<":">>

\* One task object; the properties come out in insertion order, which the
\* spread in toggleTask keeps: id, text, completed, createdAt.
StringifyTask(t) ==
  OpenId \o JsonQuote(t.id)
    \o CommaText \o JsonQuote(t.text)
    \o CommaCompleted \o JsonBool(t.completed)
    \o CommaCreatedAt \o JsonQuote(t.createdAt)
    \o <<"}">>

\* A bug: only the newest task is written.
StringifyNewest(ts) == IF ts = <<>> THEN <<>> ELSE StringifyTask(ts[1])

RECURSIVE StringifyElements(_)
StringifyElements(ts) ==
  IF ts = <<>> THEN <<>>
  ELSE IF Len(ts) = 1 THEN StringifyTask(ts[1])
  ELSE StringifyElements(SubSeq(ts, 1, Len(ts) - 1)) \o <<",">> \o StringifyTask(ts[Len(ts)])

\* JSON.stringify(tasks)
JSONstringify(ts) == <<"[">> \o StringifyElements(ts) \o <<"]">>

\* ------------------------------------------------------------- JSON.parse
\* Parsed values are tagged: string, boolean, null, number (a non-negative
\* integer), array (a sequence of values) and object (a sequence of
\* key/value members in source order).  A parse step returns
\* [ok, v, p]: success, the value, and the position after it.
JsonWs == {" ", "\t", "\n"}
Digits == {"0", "1", "2", "3", "4", "5", "6", "7", "8", "9"}
DigitValue(c) == CHOOSE d \in 0..9 : Digit(d) = c
Fail == [ok |-> FALSE, v |-> [t |-> "null"], p |-> 0]
Ok(v, p) == [ok |-> TRUE, v |-> v, p |-> p]

RECURSIVE SkipWs(_, _)
SkipWs(s, p) == IF p <= Len(s) /\ s[p] \in JsonWs THEN SkipWs(s, p + 1) ELSE p

\* s has the characters of lit at position p.
HasLiteral(s, p, lit) ==
  /\ p + Len(lit) - 1 <= Len(s)
  /\ SubSeq(s, p, p + Len(lit) - 1) = lit

\* The characters of a string value, p being just after the opening quote.
RECURSIVE ParseChars(_, _, _)
ParseChars(s, p, acc) ==
  IF p > Len(s) THEN Fail
  ELSE IF s[p] = "\"" THEN Ok([t |-> "string", v |-> acc], p + 1)
  ELSE IF s[p] \in {"\t", "\n"} THEN Fail
  ELSE IF s[p] = "\\" THEN
    IF p + 1 > Len(s) THEN Fail
    ELSE IF s[p + 1] \in {"\"", "\\", "/"} THEN ParseChars(s, p + 2, Append(acc, s[p + 1]))
    ELSE IF s[p + 1] = "t" THEN ParseChars(s, p + 2, Append(acc, "\t"))
    ELSE IF s[p + 1] = "n" THEN ParseChars(s, p + 2, Append(acc, "\n"))
    ELSE Fail
  ELSE ParseChars(s, p + 1, Append(acc, s[p]))

ParseString(s, p) ==
  IF p <= Len(s) /\ s[p] = "\"" THEN ParseChars(s, p + 1, <<>>) ELSE Fail

RECURSIVE ParseDigits(_, _, _)
ParseDigits(s, p, n) ==
  IF p <= Len(s) /\ s[p] \in Digits
    THEN ParseDigits(s, p + 1, 10 * n + DigitValue(s[p]))
    ELSE Ok([t |-> "number", v |-> n], p)

\* The last member with key k wins, as in an object literal.
SetMember(members, k, v) ==
  IF \E i \in DOMAIN members : members[i].k = k
    THEN [i \in DOMAIN members |->
            IF members[i].k = k THEN [k |-> k, v |-> v] ELSE members[i]]
    ELSE Append(members, [k |-> k, v |-> v])

RECURSIVE ParseValue(_, _), ParseElements(_, _, _), ParseMembers(_, _, _)

ParseValue(s, p0) ==
  LET p == SkipWs(s, p0) IN
  IF p > Len(s) THEN Fail
  ELSE IF s[p] = "\"" THEN ParseString(s, p)
  ELSE IF s[p] \in Digits THEN
    IF s[p] = "0" /\ p < Len(s) /\ s[p + 1] \in Digits THEN Fail
    ELSE ParseDigits(s, p, 0)
  ELSE IF HasLiteral(s, p, <<"t", "r", "u", "e">>)
    THEN Ok([t |-> "boolean", v |-> TRUE], p + 4)
  ELSE IF HasLiteral(s, p, <<"f", "a", "l", "s", "e">>)
    THEN Ok([t |-> "boolean", v |-> FALSE], p + 5)
  ELSE IF HasLiteral(s, p, <<"n", "u", "l", "l">>)
    THEN Ok([t |-> "null"], p + 4)
  ELSE IF s[p] = "[" THEN
    LET q == SkipWs(s, p + 1) IN
    IF q <= Len(s) /\ s[q] = "]" THEN Ok([t |-> "array", v |-> <<>>], q + 1)
    ELSE ParseElements(s, q, <<>>)
  ELSE IF s[p] = "{" THEN
    LET q == SkipWs(s, p + 1) IN
    IF q <= Len(s) /\ s[q] = "}" THEN Ok([t |-> "object", v |-> <<>>], q + 1)
    ELSE ParseMembers(s, q, <<>>)
  ELSE Fail

\* value ("," value)* "]"
ParseElements(s, p, acc) ==
  LET r == ParseValue(s, p) IN
  IF ~r.ok THEN Fail
  ELSE LET q == SkipWs(s, r.p) IN
    IF q > Len(s) THEN Fail
    ELSE IF s[q] = "," THEN ParseElements(s, q + 1, Append(acc, r.v))
    ELSE IF s[q] = "]" THEN Ok([t |-> "array", v |-> Append(acc, r.v)], q + 1)
    ELSE Fail

\* string ":" value ("," string ":" value)* "}"
ParseMembers(s, p, acc) ==
  LET k == ParseString(s, SkipWs(s, p)) IN
  IF ~k.ok THEN Fail
  ELSE LET c == SkipWs(s, k.p) IN
    IF c > Len(s) \/ s[c] # ":" THEN Fail
    ELSE LET r == ParseValue(s, c + 1) IN
      IF ~r.ok THEN Fail
      ELSE LET q == SkipWs(s, r.p)
               members == SetMember(acc, k.v.v, r.v) IN
        IF q > Len(s) THEN Fail
        ELSE IF s[q] = "," THEN ParseMembers(s, q + 1, members)
        ELSE IF s[q] = "}" THEN Ok([t |-> "object", v |-> members], q + 1)
        ELSE Fail

\* A bug: a parse that stops at the end of the first value and does not look
\* at what follows it.
JSONparsePrefix(text) ==
  LET r == ParseValue(text, 1) IN
  IF r.ok THEN [ok |-> TRUE, v |-> r.v] ELSE [ok |-> FALSE, v |-> [t |-> "null"]]

\* JSON.parse(text): [ok, v]; ok is FALSE where JSON.parse throws SyntaxError.
JSONparse(text) ==
  LET r == ParseValue(text, 1) IN
  IF r.ok /\ SkipWs(text, r.p) = Len(text) + 1
    THEN [ok |-> TRUE, v |-> r.v]
    ELSE [ok |-> FALSE, v |-> [t |-> "null"]]

\* The property key of a parsed object (undefined is modelled as null).
GetMember(obj, key) ==
  IF \E i \in DOMAIN obj.v : obj.v[i].k = key
    THEN (obj.v[CHOOSE i \in DOMAIN obj.v : obj.v[i].k = key]).v
    ELSE [t |-> "null"]

\* The task record of a parsed task object.
TaskOfObject(obj) ==
  [id |-> GetMember(obj, KeyId).v,
   text |-> GetMember(obj, KeyText).v,
   completed |-> GetMember(obj, KeyCompleted).v,
   createdAt |-> GetMember(obj, KeyCreatedAt).v]

\* The collection held by a parsed array of task objects.
TasksOfArray(arr) == [i \in DOMAIN arr.v |-> TaskOfObject(arr.v[i])]

\* ------------------------------------------------------------- escapeHtml
\* A bug: the ampersand is missing from the replacement table.
EscapeNoAmp(c) ==
  CASE c = "<" -> <<"&", "l", "t", ";">>
    [] c = ">" -> <<"&", "g", "t", ";">>
    [] c = "\"" -> <<"&", "q", "u", "o", "t", ";">>
    [] c = "'" -> <<"&", "#", "3", "9", ";">>
    [] OTHER -> <<c>>

EscapeChar(c) ==
  CASE c = "&" -> <<"&", "a", "m", "p", ";">>
    [] c = "<" -> <<"&", "l", "t", ";">>
    [] c = ">" -> <<"&", "g", "t", ";">>
    [] c = "\"" -> <<"&", "q", "u", "o", "t", ";">>
    [] c = "'" -> <<"&", "#", "3", "9", ";">>
    [] OTHER -> <<c>>

\* The replacement of every character of text from position i on.
RECURSIVE EscapeFrom(_, _)
EscapeFrom(text, i) ==
  IF i > Len(text) THEN <<>> ELSE EscapeChar(text[i]) \o EscapeFrom(text, i + 1)

\* text.replace(/[&<>"']/g, c => ...)
escapeHtml(text) == EscapeFrom(text, 1)

\* ------------------------------------------------------------------ state
VARIABLES
  tasks,          \* let tasks: the in-memory collection
  tasksKind,      \* what the variable tasks holds: "array", or the type of
                  \* the non-array value JSON.parse gave it (tasks is then <<>>)
  currentFilter,  \* let currentFilter
  stored,         \* localStorage item under STORAGE_KEY: [present, value]
  rows,           \* the children of refs.list, as built by render
  emptyState,     \* refs.emptyState is displayed
  leftInfo,       \* the counts shown in refs.leftInfo: [active, total]
  failures,       \* how many storage writes have failed so far
  last,           \* what the last handler did (observation)
  before,         \* tasks when the last handler started (observation)
  beforeStored    \* stored when the last handler started (observation)

vars == <<tasks, tasksKind, currentFilter, stored, rows, emptyState, leftInfo,
          failures, last, before, beforeStored>>

\* What the text field can hold when the form is submitted: nothing, white
\* space only, a text wrapped in white space, a text with markup characters.
InputTexts ==
  { <<>>, <<" ", "\t">>, <<" ", "a", "\t">>, <<"\"", "<">> }

\* The readings of the system clock.  Date.now() is wall-clock time: two
\* readings can be equal (same millisecond) and the clock can be set back.
ClockReadings == 0..MaxClock

\* The ids a toggle or a delete can be asked for: the ids the clock can
\* produce, and one that no task ever has.
IdInputs == { NumberToString(t) : t \in ClockReadings } \cup { <<"x">> }

\* The data-filter attributes of the filter buttons; the empty string is a
\* button without the attribute.
FilterButtons == { "all", "active", "completed", "" }

NoItem == [present |-> FALSE, value |-> <<>>]
Item(text) == [present |-> TRUE, value |-> text]

\* The outcomes of localStorage.setItem: TRUE it stores, FALSE it throws
\* (quota exceeded, storage disabled).
WriteOutcomes == IF failures < MaxFailures THEN BOOLEAN ELSE {TRUE}

\* The observation of a handler run: the handler and its argument, whether
\* confirm() was shown and answered yes, whether setItem was called and went
\* through, whether render() ran to its end, whether the handler before was
\* the same with the same argument, whether that one changed tasks, and
\* whether the handler ended in an uncaught exception.
Did(op, arg, prompted, confirmed, wrote, writeOk, rendered) ==
  [op |-> op, arg |-> arg, prompted |-> prompted, confirmed |-> confirmed,
   wrote |-> wrote, writeOk |-> writeOk, rendered |-> rendered,
   repeat |-> (last.op = op /\ last.arg = arg),
   prevChanged |-> (tasks # before),
   threw |-> FALSE]

\* The observation of a handler run that ended in an uncaught TypeError.
Threw(op, arg) ==
  [Did(op, arg, FALSE, FALSE, FALSE, FALSE, FALSE) EXCEPT !.threw = TRUE]

Observe(d) ==
  /\ last' = d
  /\ before' = tasks
  /\ beforeStored' = stored

\* ----------------------------------------------------------------- render
SelectActive(ts) == SelectSeq(ts, LAMBDA t : ~t.completed)
SelectCompleted(ts) == SelectSeq(ts, LAMBDA t : t.completed)

\* A bug: the two filters are swapped.
filteredSwapped(ts, f) ==
  IF f = "active" THEN SelectCompleted(ts)
  ELSE IF f = "completed" THEN SelectActive(ts)
  ELSE ts

filteredTasks(ts, f) ==
  IF f = "active" THEN SelectActive(ts)
  ELSE IF f = "completed" THEN SelectCompleted(ts)
  ELSE ts

\* One <li>: data-id, the escaped text in .task-text, the checked state.
\* The relative-time label is left out: nothing reads it back.
Row(t) == [id |-> t.id, html |-> escapeHtml(t.text), checked |-> t.completed]

updateLeftInfo(ts) == [active |-> Len(SelectActive(ts)), total |-> Len(ts)]

\* A bug: render() lists tasks instead of filteredTasks().
RenderedUnfiltered(ts, f) ==
  [rows |-> [i \in DOMAIN ts |-> Row(ts[i])],
   emptyState |-> (Len(ts) = 0),
   leftInfo |-> updateLeftInfo(ts)]

\* The DOM after render(): [rows, emptyState, leftInfo].
Rendered(ts, f) ==
  LET list == filteredTasks(ts, f) IN
  [rows |-> [i \in DOMAIN list |-> Row(list[i])],
   emptyState |-> (Len(list) = 0),
   leftInfo |-> updateLeftInfo(ts)]

render(ts, f) ==
  /\ rows' = Rendered(ts, f).rows
  /\ emptyState' = Rendered(ts, f).emptyState
  /\ leftInfo' = Rendered(ts, f).leftInfo

\* render() when tasks holds a value of type kind that is not an array; it
\* ends in a TypeError.  With the filter active or completed, filteredTasks
\* throws at once (no .filter).  Otherwise the list is emptied, the
\* empty-state is hidden (.length is not 0: undefined for an object or a
\* number, positive for a non-empty string), and the for-of throws (an
\* object or a number is not iterable; a character has no .text for
\* escapeHtml).  updateLeftInfo is not reached.
RenderedNonArray(kind, f, dom) ==
  IF f \in {"active", "completed"}
    THEN dom
    ELSE [rows |-> <<>>, emptyState |-> FALSE, leftInfo |-> dom.leftInfo]

renderNonArray(kind, f, dom) ==
  /\ rows' = RenderedNonArray(kind, f, dom).rows
  /\ emptyState' = RenderedNonArray(kind, f, dom).emptyState
  /\ leftInfo' = RenderedNonArray(kind, f, dom).leftInfo

\* The DOM now, and the DOM of the page as it is served: an empty list, the
\* empty-state visible, no counts yet.
Dom == [rows |-> rows, emptyState |-> emptyState, leftInfo |-> leftInfo]
FreshDom == [rows |-> <<>>, emptyState |-> TRUE,
             leftInfo |-> [active |-> 0, total |-> 0]]

\* ---------------------------------------------------------------- storage
\* A bug: the collection is serialized as it was when the handler started.
saveStale(ts, ok) ==
  /\ stored' = IF ok THEN Item(JSONstringify(tasks)) ELSE stored
  /\ failures' = IF ok THEN failures ELSE failures + 1

\* A bug: the catch removes the item.
saveOrRemove(ts, ok) ==
  /\ stored' = IF ok THEN Item(JSONstringify(ts)) ELSE NoItem
  /\ failures' = IF ok THEN failures ELSE failures + 1

\* try { localStorage.setItem(STORAGE_KEY, JSON.stringify(tasks)) }: when
\* setItem throws, the catch logs and the item stays as it was.
saveToStorage(ts, ok) ==
  /\ stored' = IF ok THEN Item(JSONstringify(ts)) ELSE stored
  /\ failures' = IF ok THEN failures ELSE failures + 1

\* The collection after loadFromStorage, tasks being [] before it.
loadFromStorage(item) ==
  IF ~item.present \/ item.value = <<>> THEN <<>>
  ELSE LET r == JSONparse(item.value) IN
    IF r.ok /\ r.v.t = "array" THEN TasksOfArray(r.v) ELSE <<>>

\* What tasks holds after loadFromStorage: the array it was, the empty array
\* of the catch, or whatever JSON.parse returned.
loadedKind(item) ==
  IF ~item.present \/ item.value = <<>> THEN "array"
  ELSE LET r == JSONparse(item.value) IN
    IF r.ok THEN r.v.t ELSE "array"

\* ------------------------------------------------------------------- init
\* The page is opened with nothing stored under STORAGE_KEY.
Init ==
  /\ tasks = loadFromStorage(NoItem)
  /\ tasksKind = loadedKind(NoItem)
  /\ currentFilter = "all"
  /\ stored = NoItem
  /\ rows = Rendered(loadFromStorage(NoItem), "all").rows
  /\ emptyState = Rendered(loadFromStorage(NoItem), "all").emptyState
  /\ leftInfo = Rendered(loadFromStorage(NoItem), "all").leftInfo
  /\ failures = 0
  /\ last = [op |-> "init", arg |-> <<>>, prompted |-> FALSE, confirmed |-> FALSE,
             wrote |-> FALSE, writeOk |-> FALSE, rendered |-> TRUE,
             repeat |-> FALSE, prevChanged |-> FALSE, threw |-> FALSE]
  /\ before = <<>>
  /\ beforeStored = NoItem

\* The page is reloaded: the script runs again from its first line, init()
\* loads what is stored and renders.
Reload ==
  /\ tasks' = loadFromStorage(stored)
  /\ tasksKind' = loadedKind(stored)
  /\ currentFilter' = "all"
  /\ IF tasksKind' = "array"
       THEN /\ render(tasks', "all")
            /\ Observe(Did("init", <<>>, FALSE, FALSE, FALSE, FALSE, TRUE))
       ELSE /\ renderNonArray(tasksKind', "all", FreshDom)
            /\ Observe(Threw("init", <<>>))
  /\ UNCHANGED <<stored, failures>>

\* --------------------------------------------------------------- handlers
\* A bug: the new task goes to the end of the array.
Push(ts, t) == ts \o <<t>>

\* tasks.unshift(task)
Unshift(ts, t) == <<t>> \o ts

\* Submit of the form.  value is refs.input.value, now the clock reading, ok
\* the outcome of the storage write.  (The field is emptied after an add;
\* what it holds at the next submit is again the user's choice.)
onAdd(value, now, ok) ==
  LET text == Trim(value) IN
  IF text = <<>>
    THEN /\ UNCHANGED <<tasks, tasksKind, currentFilter, stored, rows, emptyState,
                        leftInfo, failures>>
         /\ Observe(Did("add", value, FALSE, FALSE, FALSE, FALSE, FALSE))
  ELSE IF tasksKind # "array"
    THEN \* tasks.unshift is not a function
         /\ UNCHANGED <<tasks, tasksKind, currentFilter, stored, rows, emptyState,
                        leftInfo, failures>>
         /\ Observe(Threw("add", value))
    ELSE /\ Len(tasks) < MaxTasks
         /\ tasks' = Unshift(tasks, NewTask(text, now))
         /\ saveToStorage(tasks', ok)
         /\ render(tasks', currentFilter)
         /\ Observe(Did("add", value, FALSE, FALSE, TRUE, ok, TRUE))
         /\ UNCHANGED <<tasksKind, currentFilter>>

\* A bug: the filter click saves the collection as the other handlers do.
onFilterClickSaving(btn) ==
  /\ currentFilter' = (IF btn = "" THEN "all" ELSE btn)
  /\ stored' = Item(JSONstringify(tasks))
  /\ UNCHANGED <<tasks, tasksKind, failures>>
  /\ render(tasks, currentFilter')
  /\ Observe(Did("filter", <<btn>>, FALSE, FALSE, FALSE, FALSE, TRUE))

\* A click on a filter button whose data-filter attribute is btn.
onFilterClick(btn) ==
  /\ currentFilter' = (IF btn = "" THEN "all" ELSE btn)
  /\ UNCHANGED <<tasks, tasksKind, stored, failures>>
  /\ IF tasksKind = "array"
       THEN /\ render(tasks, currentFilter')
            /\ Observe(Did("filter", <<btn>>, FALSE, FALSE, FALSE, FALSE, TRUE))
       ELSE /\ renderNonArray(tasksKind, currentFilter', Dom)
            /\ Observe(Threw("filter", <<btn>>))

\* A bug: the toggle marks the task completed instead of flipping it.
MapComplete(ts, id) ==
  [i \in DOMAIN ts |-> IF ts[i].id = id THEN [ts[i] EXCEPT !.completed = TRUE] ELSE ts[i]]

\* A bug: the toggled task is built anew without its createdAt.
MapRebuild(ts, id) ==
  [i \in DOMAIN ts |->
     IF ts[i].id = id
       THEN [id |-> ts[i].id, text |-> ts[i].text,
             completed |-> ~ts[i].completed, createdAt |-> <<>>]
       ELSE ts[i]]

\* tasks.map(t => t.id === id ? {...t, completed: !t.completed} : t)
MapToggle(ts, id) ==
  [i \in DOMAIN ts |->
     IF ts[i].id = id THEN [ts[i] EXCEPT !.completed = ~ts[i].completed] ELSE ts[i]]

\* toggleTask(id), reached from onListClick and onListKeydown with the
\* data-id of the row.
toggleTask(id, ok) ==
  IF tasksKind # "array"
    THEN \* tasks.map is not a function
         /\ UNCHANGED <<tasks, tasksKind, currentFilter, stored, rows, emptyState,
                        leftInfo, failures>>
         /\ Observe(Threw("toggle", id))
    ELSE /\ tasks' = MapToggle(tasks, id)
         /\ saveToStorage(tasks', ok)
         /\ render(tasks', currentFilter)
         /\ Observe(Did("toggle", id, FALSE, FALSE, TRUE, ok, TRUE))
         /\ UNCHANGED <<tasksKind, currentFilter>>

\* A bug: splice(findIndex(...), 1) takes out the first match only, and the
\* last task when nothing matches (findIndex gives -1).
SpliceFirst(ts, id) ==
  IF ts = <<>> THEN ts
  ELSE LET hits == { i \in DOMAIN ts : ts[i].id = id }
           k == IF hits = {} THEN Len(ts)
                ELSE CHOOSE i \in hits : \A j \in hits : i <= j
       IN SubSeq(ts, 1, k - 1) \o SubSeq(ts, k + 1, Len(ts))

\* A bug: the filter condition is inverted and keeps the matching tasks.
FilterOnly(ts, id) == SelectSeq(ts, LAMBDA t : t.id = id)

\* tasks.filter(t => t.id !== id)
FilterOut(ts, id) == SelectSeq(ts, LAMBDA t : t.id # id)

\* removeTask(id), reached from onListClick with the data-id of the row.
removeTask(id, ok) ==
  IF tasksKind # "array"
    THEN \* tasks.filter is not a function
         /\ UNCHANGED <<tasks, tasksKind, currentFilter, stored, rows, emptyState,
                        leftInfo, failures>>
         /\ Observe(Threw("remove", id))
    ELSE /\ tasks' = FilterOut(tasks, id)
         /\ saveToStorage(tasks', ok)
         /\ render(tasks', currentFilter)
         /\ Observe(Did("remove", id, FALSE, FALSE, TRUE, ok, TRUE))
         /\ UNCHANGED <<tasksKind, currentFilter>>

\* A bug: the guard looks at whether there are tasks at all.
AnyTask(ts) == ts # <<>>

\* tasks.some(t => t.completed)
AnyCompleted(ts) == \E i \in DOMAIN ts : ts[i].completed

\* A bug: the filter keeps the completed tasks.
KeepCompleted(ts) == SelectCompleted(ts)

\* tasks.filter(t => !t.completed)
FilterActive(ts) == SelectActive(ts)

\* A bug: confirm() is shown and its answer is not looked at.
clearIgnoringAnswer(answer, ok) ==
  IF ~AnyCompleted(tasks)
    THEN /\ UNCHANGED <<tasks, tasksKind, currentFilter, stored, rows, emptyState,
                        leftInfo, failures>>
         /\ Observe(Did("clear", <<>>, FALSE, FALSE, FALSE, FALSE, FALSE))
  ELSE /\ tasks' = FilterActive(tasks)
       /\ saveToStorage(tasks', ok)
       /\ render(tasks', currentFilter)
       /\ Observe(Did("clear", <<>>, TRUE, answer, TRUE, ok, TRUE))
       /\ UNCHANGED <<tasksKind, currentFilter>>

\* A click on the clear-completed button.  answer is what the user answers
\* when confirm() is shown.
clearCompleted(answer, ok) ==
  IF tasksKind # "array"
    THEN \* tasks.some is not a function
         /\ UNCHANGED <<tasks, tasksKind, currentFilter, stored, rows, emptyState,
                        leftInfo, failures>>
         /\ Observe(Threw("clear", <<>>))
  ELSE IF ~AnyCompleted(tasks)
    THEN /\ UNCHANGED <<tasks, tasksKind, currentFilter, stored, rows, emptyState,
                        leftInfo, failures>>
         /\ Observe(Did("clear", <<>>, FALSE, FALSE, FALSE, FALSE, FALSE))
  ELSE IF ~answer
    THEN /\ UNCHANGED <<tasks, tasksKind, currentFilter, stored, rows, emptyState,
                        leftInfo, failures>>
         /\ Observe(Did("clear", <<>>, TRUE, FALSE, FALSE, FALSE, FALSE))
  ELSE /\ tasks' = FilterActive(tasks)
       /\ saveToStorage(tasks', ok)
       /\ render(tasks', currentFilter)
       /\ Observe(Did("clear", <<>>, TRUE, TRUE, TRUE, ok, TRUE))
       /\ UNCHANGED <<tasksKind, currentFilter>>

Next ==
  \/ Reload
  \/ \E value \in InputTexts : \E now \in ClockReadings : \E ok \in WriteOutcomes :
       onAdd(value, now, ok)
  \/ \E btn \in FilterButtons : onFilterClick(btn)
  \/ \E id \in IdInputs : \E ok \in WriteOutcomes : toggleTask(id, ok)
  \/ \E id \in IdInputs : \E ok \in WriteOutcomes : removeTask(id, ok)
  \/ \E answer \in BOOLEAN : \E ok \in WriteOutcomes : clearCompleted(answer, ok)

Spec == Init /\ [][Next]_vars

\* ---------------------------------------------------------------- startup
\* What can be under STORAGE_KEY when the page is opened.
OneTask == <<NewTask(<<"a">>, 0)>>

\* Text that JSON.parse rejects: a write cut short, a stray character after
\* the array, no JSON at all.
CorruptTexts ==
  { SubSeq(JSONstringify(OneTask), 1, Len(OpenId) + 2),
    JSONstringify(OneTask) \o <<"]">>,
    <<"x">> }

\* Text that JSON.parse accepts and that is not an array: an object, a
\* number, a string.
NonArrayTexts == { <<"{", "}">>, <<"5">>, <<"\"", "a", "\"">> }

\* Text this program wrote.
OwnTexts == { JSONstringify(<<>>), JSONstringify(OneTask) }

StartupItems ==
  {NoItem} \cup { Item(text) : text \in CorruptTexts \cup NonArrayTexts \cup OwnTexts }

\* init() on a fresh page with item under STORAGE_KEY: loadFromStorage,
\* bindEvents, render.  With a non-array in tasks, render throws and init()
\* ends there, the handlers being bound already.
InitStartup ==
  \E item \in StartupItems :
    /\ stored = item
    /\ tasks = loadFromStorage(item)
    /\ tasksKind = loadedKind(item)
    /\ currentFilter = "all"
    /\ LET dom == IF loadedKind(item) = "array"
                    THEN Rendered(loadFromStorage(item), "all")
                    ELSE RenderedNonArray(loadedKind(item), "all", FreshDom)
       IN /\ rows = dom.rows
          /\ emptyState = dom.emptyState
          /\ leftInfo = dom.leftInfo
    /\ failures = 0
    /\ last = [op |-> "init", arg |-> <<>>, prompted |-> FALSE, confirmed |-> FALSE,
               wrote |-> FALSE, writeOk |-> FALSE,
               rendered |-> (loadedKind(item) = "array"),
               repeat |-> FALSE, prevChanged |-> FALSE,
               threw |-> (loadedKind(item) # "array")]
    /\ before = tasks
    /\ beforeStored = item

SpecStartup == InitStartup /\ [][Next]_vars

\* ----------------------------------------------------------- markup texts
\* Task texts over the characters escapeHtml replaces, a letter and the
\* semicolon, and three texts that look like markup or like an entity.
MaxTextLen == 2
EscapeAlphabet == {"&", "<", ">", "\"", "'", "a", ";"}
EscapeTexts ==
  UNION { [1..n -> EscapeAlphabet] : n \in 0..MaxTextLen }
    \cup { <<"<", "s", "c", "r", "i", "p", "t", ">">>,
           <<"&", "a", "m", "p", ";">>,
           <<"&", "#", "3", "9", ";">> }

\* One task at a time: a text is added and rendered, the task is deleted.
NextEscape ==
  \/ \E value \in EscapeTexts : \E now \in ClockReadings :
       tasks = <<>> /\ onAdd(value, now, TRUE)
  \/ \E id \in IdInputs : tasks # <<>> /\ removeTask(id, TRUE)

SpecEscape == Init /\ [][NextEscape]_vars

\* ------------------------------------------------------------- properties
\* Definitions the properties are stated with; they do not use the
\* operators that model the handlers.
IsWhite(c) == c = " " \/ c = "\t" \/ c = "\n"

\* The trimmed form of v: v without its leading and trailing white space.
TrimmedForm(v) ==
  LET inked == { i \in DOMAIN v : ~IsWhite(v[i]) } IN
  IF inked = {} THEN <<>>
  ELSE SubSeq(v, CHOOSE i \in inked : \A j \in inked : i <= j,
                 CHOOSE i \in inked : \A j \in inked : j <= i)

HasId(ts, id) == \E i \in DOMAIN ts : ts[i].id = id
NoneCompleted(ts) == \A i \in DOMAIN ts : ~ts[i].completed
Without(ts, id) == SelectSeq(ts, LAMBDA t : t.id # id)
NotCompleted(ts) == SelectSeq(ts, LAMBDA t : ~t.completed)
Mutating == {"add", "toggle", "remove", "clear"}

\* C1: no two tasks of the collection have the same id.
C1_UniqueIds ==
  \A i \in DOMAIN tasks : \A j \in DOMAIN tasks : i # j => tasks[i].id # tasks[j].id

\* C2: an add whose text has a non-empty trimmed form s yields the former
\* collection with one new task in front: text s, not completed.
C2_AddPrepends ==
  (last.op = "add" /\ TrimmedForm(last.arg) # <<>>) =>
    /\ Len(tasks) = Len(before) + 1
    /\ tasks[1].text = TrimmedForm(last.arg)
    /\ tasks[1].completed = FALSE
    /\ Tail(tasks) = before

\* C2 happens: a text wrapped in white space was added to a non-empty collection.
C2_Witness ==
  /\ last.op = "add"
  /\ TrimmedForm(last.arg) # <<>>
  /\ TrimmedForm(last.arg) # last.arg
  /\ before # <<>>

\* C3: an add whose text is empty or white space only leaves the collection
\* as it was and does not write to storage.
C3_BlankAddIsNoOp ==
  (last.op = "add" /\ TrimmedForm(last.arg) = <<>>) =>
    /\ tasks = before
    /\ ~last.wrote
    /\ stored = beforeStored

\* C3 happens: white space was submitted while the collection held tasks.
C3_Witness ==
  /\ last.op = "add"
  /\ last.arg # <<>>
  /\ TrimmedForm(last.arg) = <<>>
  /\ before # <<>>

\* C4: a toggle(id) that follows a toggle(id) gives back the collection as
\* it was before the first of the two.
C4_ToggleTwice ==
  [][(last'.op = "toggle" /\ last'.repeat) => tasks' = before]_vars

\* C4 happens: the same id was toggled twice in a row and the second toggle
\* flipped a task.
C4_Witness ==
  /\ last.op = "toggle"
  /\ last.repeat
  /\ HasId(tasks, last.arg)
  /\ tasks # before

\* C5: a toggle or a remove of an id that no task has leaves the collection
\* as it was, and the handler runs to its end.
C5_UnknownIdIsNoOp ==
  (last.op \in {"toggle", "remove"} /\ ~HasId(before, last.arg)) =>
    /\ tasks = before
    /\ last.rendered

\* C5 happens: an id no task has was removed from a non-empty collection.
C5_Witness ==
  /\ last.op = "remove"
  /\ ~HasId(before, last.arg)
  /\ before # <<>>

\* C6: after remove(id) no task has that id and the other tasks are there
\* in their former order; a remove(id) right after a remove(id) changes
\* nothing.
C6_RemoveIdempotent ==
  last.op = "remove" =>
    /\ ~HasId(tasks, last.arg)
    /\ tasks = Without(before, last.arg)
    /\ (last.repeat => tasks = before)

\* C6 happens: the same id was removed twice in a row, the first remove
\* took a task out and another task stayed.
C6_Witness ==
  /\ last.op = "remove"
  /\ last.repeat
  /\ last.prevChanged
  /\ tasks # <<>>

\* C7: with no completed task, clear-completed shows no prompt, writes
\* nothing and leaves the collection as it was.
C7_ClearNothingToDo ==
  (last.op = "clear" /\ NoneCompleted(before)) =>
    /\ ~last.prompted
    /\ ~last.wrote
    /\ tasks = before
    /\ stored = beforeStored

\* C7 happens: clear-completed was asked for with tasks but none completed.
C7_Witness ==
  /\ last.op = "clear"
  /\ NoneCompleted(before)
  /\ before # <<>>

\* C8: clear-completed without a confirmed prompt changes neither the
\* collection nor the stored value.
C8_NoClearWithoutConfirm ==
  (last.op = "clear" /\ ~(last.prompted /\ last.confirmed)) =>
    /\ tasks = before
    /\ stored = beforeStored

\* C8 happens: the prompt was shown and declined.
C8_Witness ==
  /\ last.op = "clear"
  /\ last.prompted
  /\ ~last.confirmed
  /\ ~NoneCompleted(tasks)

C10_StoredIsCurrent ==
  (last.op \in Mutating /\ last.wrote /\ last.writeOk) =>
    /\ stored = Item(JSONstringify(tasks))
    /\ LET r == JSONparse(stored.value) IN
       /\ r.ok
       /\ r.v.t = "array"
       /\ Len(r.v.v) = Len(tasks)
       /\ \A i \in DOMAIN tasks :
            /\ r.v.v[i].t = "object"
            /\ [j \in DOMAIN r.v.v[i].v |-> r.v.v[i].v[j].k]
                 = <<KeyId, KeyText, KeyCompleted, KeyCreatedAt>>
            /\ TaskOfObject(r.v.v[i]) = tasks[i]

\* C10 happens: a write went through after an earlier one had failed, with
\* two tasks in memory.
C10_Witness ==
  /\ last.op \in Mutating
  /\ last.wrote
  /\ last.writeOk
  /\ failures > 0
  /\ Len(tasks) >= 2

C14_NeverFatal ==
  /\ tasksKind = "array"
  /\ ~last.threw

\* More definitions the properties are stated with.
OnlyCompleted(ts) == SelectSeq(ts, LAMBDA t : t.completed)
InSeq(x, ts) == \E i \in DOMAIN ts : ts[i] = x
Flipped(ts, id) ==
  [i \in DOMAIN ts |->
     [id |-> ts[i].id, text |-> ts[i].text, createdAt |-> ts[i].createdAt,
      completed |-> IF ts[i].id = id THEN ~ts[i].completed ELSE ts[i].completed]]
Projection(ts, f) ==
  CASE f = "active" -> NotCompleted(ts)
    [] f = "completed" -> OnlyCompleted(ts)
    [] OTHER -> ts

\* a is b with some elements left out.
RECURSIVE IsSubseq(_, _)
IsSubseq(a, b) ==
  IF a = <<>> THEN TRUE
  ELSE IF b = <<>> THEN FALSE
  ELSE IF Head(a) = Head(b) THEN IsSubseq(Tail(a), Tail(b))
  ELSE IsSubseq(a, Tail(b))

\* C11: a reload that finds in storage the saved text of the collection in
\* memory (the empty one included) loads a collection equal to it: same ids,
\* texts, completed flags, createdAt, same order.
C11_RoundTrip ==
  (last.op = "init" /\ beforeStored = Item(JSONstringify(before))) =>
    /\ tasksKind = "array"
    /\ tasks = before

\* C11 happens: two tasks, one completed, one with a quote in its text, were
\* saved and loaded back.
C11_Witness ==
  /\ last.op = "init"
  /\ beforeStored = Item(JSONstringify(before))
  /\ Len(before) = 2
  /\ \E i \in DOMAIN before : before[i].completed
  /\ \E i \in DOMAIN before : \E k \in DOMAIN before[i].text : before[i].text[k] = "\""

\* C12: when the storage write of a handler fails, the stored item is as it
\* was, the collection in memory has the handler's change, and the handler
\* ends with render() of that collection.
C12_FailedWrite ==
  (last.wrote /\ ~last.writeOk) =>
    /\ stored = beforeStored
    /\ CASE last.op = "add" -> /\ Len(tasks) = Len(before) + 1
                               /\ Tail(tasks) = before
                               /\ tasks[1].text = TrimmedForm(last.arg)
         [] last.op = "toggle" -> tasks = Flipped(before, last.arg)
         [] last.op = "remove" -> tasks = Without(before, last.arg)
         [] last.op = "clear" -> tasks = NotCompleted(before)
         [] OTHER -> FALSE
    /\ last.rendered
    /\ ~last.threw
    /\ LET p == Projection(tasks, currentFilter) IN
       /\ Len(rows) = Len(p)
       /\ \A i \in DOMAIN p : rows[i].id = p[i].id /\ rows[i].checked = p[i].completed

\* C12 happens: a write failed after an earlier one had stored something, and
\* the handler changed the collection.
C12_Witness ==
  /\ last.wrote
  /\ ~last.writeOk
  /\ beforeStored.present
  /\ tasks # before

\* C15: filteredTasks gives the whole collection, its not-completed tasks or
\* its completed tasks, in store order; every task is in exactly one of the
\* active and the completed projection; a task toggled to completed is in
\* the completed projection and not in the active one.
C15_Projection ==
  /\ filteredTasks(tasks, "all") = tasks
  /\ filteredTasks(tasks, "active") = NotCompleted(tasks)
  /\ filteredTasks(tasks, "completed") = OnlyCompleted(tasks)
  /\ \A i \in DOMAIN tasks :
       InSeq(tasks[i], filteredTasks(tasks, "active"))
         # InSeq(tasks[i], filteredTasks(tasks, "completed"))
  /\ last.op = "toggle" =>
       \A i \in DOMAIN before :
         (before[i].id = last.arg /\ ~before[i].completed) =>
           /\ InSeq(tasks[i], filteredTasks(tasks, "completed"))
           /\ ~InSeq(tasks[i], filteredTasks(tasks, "active"))

\* C15 happens: one of two tasks was toggled to completed, the other is
\* active.
C15_Witness ==
  /\ last.op = "toggle"
  /\ Len(tasks) = 2
  /\ \E i \in DOMAIN before : before[i].id = last.arg /\ ~before[i].completed
  /\ \E i \in DOMAIN tasks : ~tasks[i].completed

\* The five entities and the characters they stand for.
Entities ==
  { [e |-> <<"&", "a", "m", "p", ";">>, c |-> "&"],
    [e |-> <<"&", "l", "t", ";">>, c |-> "<"],
    [e |-> <<"&", "g", "t", ";">>, c |-> ">"],
    [e |-> <<"&", "q", "u", "o", "t", ";">>, c |-> "\""],
    [e |-> <<"&", "#", "3", "9", ";">>, c |-> "'"] }

\* The entity that h has at position k, if any.
EntitiesAt(h, k) ==
  { x \in Entities : k + Len(x.e) - 1 <= Len(h) /\ SubSeq(h, k, k + Len(x.e) - 1) = x.e }

\* h from position k on, with every entity replaced by its character.
RECURSIVE DecodeFrom(_, _)
DecodeFrom(h, k) ==
  IF k > Len(h) THEN <<>>
  ELSE IF EntitiesAt(h, k) # {}
    THEN LET x == CHOOSE y \in EntitiesAt(h, k) : TRUE
         IN <<x.c>> \o DecodeFrom(h, k + Len(x.e))
    ELSE <<h[k]>> \o DecodeFrom(h, k + 1)

\* C16: the text put into a rendered row has none of < > " ' in it, has &
\* only at the start of one of the five entities, and decodes to the task's
\* text.
C16_EscapedText ==
  \A i \in DOMAIN rows :
    LET h == rows[i].html
        text == Projection(tasks, currentFilter)[i].text
    IN /\ \A k \in DOMAIN h : h[k] \notin {"<", ">", "\"", "'"}
       /\ \A k \in DOMAIN h : h[k] = "&" => EntitiesAt(h, k) # {}
       /\ DecodeFrom(h, 1) = text

\* C16 happens: the text &< is rendered as &amp;&lt;.
C16_Witness ==
  /\ Len(rows) = 1
  /\ tasks[1].text = <<"&", "<">>
  /\ rows[1].html = <<"&", "a", "m", "p", ";", "&", "l", "t", ";">>

\* C17: a filter click leaves the collection and the stored item as they
\* were and writes nothing; an add, toggle, remove or clear-completed leaves
\* the filter mode as it was.
C17_FilterFrame ==
  [][ /\ last'.op = "filter" =>
           (tasks' = tasks /\ stored' = stored /\ ~last'.wrote)
      /\ last'.op \in Mutating => currentFilter' = currentFilter ]_vars

\* C17 happens: the filter was changed while tasks were in memory that the
\* stored item does not have.
C17_Witness ==
  /\ last.op = "filter"
  /\ currentFilter = "completed"
  /\ tasks # <<>>
  /\ stored # Item(JSONstringify(tasks))

\* C18: after a handler that reached the end of render(), the rows are the
\* projection of the collection under the filter mode, in order, and the
\* empty-state is shown exactly when that projection is empty.
C18_RowsAreProjection ==
  last.rendered =>
    LET p == Projection(tasks, currentFilter) IN
    /\ rows = [i \in DOMAIN p |->
                 [id |-> p[i].id, html |-> escapeHtml(p[i].text), checked |-> p[i].completed]]
    /\ emptyState = (p = <<>>)

\* C18 happens: under the active filter one of two tasks is shown.
C18_Witness ==
  /\ last.rendered
  /\ currentFilter = "active"
  /\ Len(tasks) = 2
  /\ Len(rows) = 1

\* C19: a toggle keeps length and order, flips the completed flag of the
\* tasks with the id and changes nothing else; after any other handler the
\* tasks that were there before are there unchanged, or gone.
C19_FieldsKept ==
  /\ last.op = "toggle" =>
       /\ Len(tasks) = Len(before)
       /\ \A i \in DOMAIN before :
            /\ tasks[i].id = before[i].id
            /\ tasks[i].text = before[i].text
            /\ tasks[i].createdAt = before[i].createdAt
            /\ (tasks[i].completed # before[i].completed) <=> (before[i].id = last.arg)
  /\ last.op \in {"add", "remove", "clear", "filter"} =>
       IsSubseq(IF last.op = "add" /\ last.wrote THEN Tail(tasks) ELSE tasks, before)

\* C19 happens: a toggle flipped one of two tasks and left the other.
C19_Witness ==
  /\ last.op = "toggle"
  /\ Len(tasks) = 2
  /\ \E i \in DOMAIN tasks : tasks[i].completed # before[i].completed
  /\ \E i \in DOMAIN tasks : tasks[i] = before[i]

\* C20: once a write has failed and the stored item lags behind the
\* collection, a handler whose write goes through stores the whole
\* collection in memory, and a reload then loads exactly that collection.
C20_CatchUp ==
  (failures > 0 /\ last.wrote /\ last.writeOk
     /\ beforeStored # Item(JSONstringify(before))) =>
    /\ stored = Item(JSONstringify(tasks))
    /\ loadedKind(stored) = "array"
    /\ loadFromStorage(stored) = tasks

\* C20 happens: the stored item lacked a task added by a failed write, and a
\* toggle then stored both tasks.
C20_Witness ==
  /\ failures > 0
  /\ last.op = "toggle"
  /\ last.writeOk
  /\ beforeStored # Item(JSONstringify(before))
  /\ Len(tasks) = 2

====
